---- MODULE Spec2Model ----
(***************************************************************************)
(* Matching and scoring engine of the youth-policy recommender:            *)
(* src/backend/agents/agent3_matching.py (class Agent3).                   *)
(*                                                                         *)
(* Python values are encoded as follows.                                   *)
(*   str            a sequence of Unicode code points (Python compares and *)
(*                  searches strings by code point)                        *)
(*   None (str)     NoneText;  a value of another type: NonStrText         *)
(*   Optional[int]  an integer >= 0, or NoneInt for None                   *)
(*   List[str]      a sequence of str;  None instead of a list: NoneList;  *)
(*                  a number instead of a list: NonListValue               *)
(*   float score    an integer number of tenths of a point, except the age *)
(*                  sub-score, kept as an exact fraction until round()     *)
(*   datetime       <<year, month, day, t>>, t = 0 for 00:00:00.000000 and *)
(*                  t = 1 for any later time of that day                   *)
(***************************************************************************)
EXTENDS Integers, Sequences, FiniteSets

\* ------------------------------------------------------------------------
\* Strings
\* ------------------------------------------------------------------------

NoneText == <<0 - 1>>
NonStrText == <<0 - 2>>
NoneList == <<<<0 - 3>>>>
NonListValue == <<<<0 - 4>>>>
NoneInt == -1

EmptyText == <<>>

IsStr(x) == x # NoneText /\ x # NonStrText

\* bool(x) of a str or None: "" and None are falsy
Truthy(x) == x # NoneText /\ x # EmptyText

Min2(a, b) == IF a <= b THEN a ELSE b
Max2(a, b) == IF a >= b THEN a ELSE b

\* sub in text (str.__contains__)
Contains(sub, text) ==
    \E p \in 1..(Len(text) - Len(sub) + 1) :
        \A k \in 1..Len(sub) : text[p + k - 1] = sub[k]

\* sub occurs in text at position p
At(sub, text, p) ==
    /\ p >= 1
    /\ p + Len(sub) - 1 <= Len(text)
    /\ \A k \in 1..Len(sub) : text[p + k - 1] = sub[k]

\* a < b for str (lexicographic by code point)
RECURSIVE StrLess(_, _)
StrLess(a, b) ==
    IF b = <<>> THEN FALSE
    ELSE IF a = <<>> THEN TRUE
    ELSE IF a[1] # b[1] THEN a[1] < b[1]
    ELSE StrLess(Tail(a), Tail(b))

StrLeq(a, b) == a = b \/ StrLess(a, b)

IsDigit(c) == c >= 48 /\ c <= 57
\* \s of the re module, for the ASCII range
IsSpace(c) == c \in {9, 10, 11, 12, 13, 32}

\* str.lower() (ASCII letters; Hangul has no case)
Lower(text) == [k \in 1..Len(text) |->
                  IF text[k] >= 65 /\ text[k] <= 90 THEN text[k] + 32 ELSE text[k]]

RECURSIVE LStrip(_)
LStrip(text) ==
    IF text # <<>> /\ IsSpace(text[1]) THEN LStrip(Tail(text)) ELSE text
RECURSIVE RStrip(_)
RStrip(text) ==
    IF text # <<>> /\ IsSpace(text[Len(text)])
    THEN RStrip(SubSeq(text, 1, Len(text) - 1)) ELSE text
\* str.strip()
Strip(text) == RStrip(LStrip(text))

\* end of the maximal run of characters satisfying a class, starting at p
\* (p - 1 when text[p] is not in the class)
RECURSIVE DigitsEnd(_, _)
DigitsEnd(text, p) ==
    IF p <= Len(text) /\ IsDigit(text[p]) THEN DigitsEnd(text, p + 1) ELSE p - 1
RECURSIVE SpacesEnd(_, _)
SpacesEnd(text, p) ==
    IF p <= Len(text) /\ IsSpace(text[p]) THEN SpacesEnd(text, p + 1) ELSE p - 1

\* int() of a string of decimal digits
RECURSIVE ParseInt(_)
ParseInt(ds) ==
    IF ds = <<>> THEN 0
    ELSE 10 * ParseInt(SubSeq(ds, 1, Len(ds) - 1)) + (ds[Len(ds)] - 48)

\* str() of an integer >= 0
RECURSIVE IntToStr(_)
IntToStr(n) ==
    IF n < 10 THEN <<48 + n>> ELSE Append(IntToStr(n \div 10), 48 + (n % 10))

\* the least element of a non-empty set of integers
MinOf(S) == CHOOSE x \in S : \A y \in S : x <= y

\* ------------------------------------------------------------------------
\* Deadline Analyzer
\* ------------------------------------------------------------------------

\* calendar (datetime's proleptic Gregorian calendar)
IsLeap(y) == (y % 4 = 0 /\ y % 100 # 0) \/ y % 400 = 0
DaysIn(y, m) ==
    IF m = 2 THEN (IF IsLeap(y) THEN 29 ELSE 28)
    ELSE IF m \in {4, 6, 9, 11} THEN 30 ELSE 31
\* datetime(y, m, d) raises ValueError unless this holds
ValidDate(y, m, d) ==
    /\ y >= 1 /\ y <= 9999
    /\ m >= 1 /\ m <= 12
    /\ d >= 1 /\ d <= DaysIn(y, m)

\* a < b for two datetimes
DateLess(a, b) ==
    \/ a[1] < b[1]
    \/ a[1] = b[1] /\ a[2] < b[2]
    \/ a[1] = b[1] /\ a[2] = b[2] /\ a[3] < b[3]
    \/ a[1] = b[1] /\ a[2] = b[2] /\ a[3] = b[3] /\ a[4] < b[4]

ch_nyeon == <<45380>>   \* "년"
ch_wol == <<50900>>     \* "월"
ch_il == <<51068>>      \* "일"
DateSeps == {45, 46, 47}   \* [-./]

kw_sangsi == <<49345, 49884>>   \* "상시"
kw_susi == <<49688, 49884>>     \* "수시"
kw_yeonjung == <<50672, 51473>> \* "연중"
\* ongoing_keywords = ['상시', '수시', '연중', '계속', '예산 소진시', '예산소진시', '예산소진시까지']
ongoing_keywords ==
    << kw_sangsi, kw_susi, kw_yeonjung,
       <<44228, 49549>>,
       <<50696, 49328, 32, 49548, 51652, 49884>>,
       <<50696, 49328, 49548, 51652, 49884>>,
       <<50696, 49328, 49548, 51652, 49884, 44620, 51648>> >>

\* \d{4} at p
Digits4At(text, p) ==
    /\ p >= 1 /\ p + 3 <= Len(text)
    /\ \A k \in 0..3 : IsDigit(text[p + k])

CharAt(text, p, set) == p >= 1 /\ p <= Len(text) /\ text[p] \in set

\* (\d{1,2}) at p followed by a character of `follow`: the number of digits
\* the greedy match takes (after backtracking), 0 when there is no match
Num12Then(text, p, follow) ==
    IF CharAt(text, p, 48..57) /\ CharAt(text, p + 1, 48..57) /\ CharAt(text, p + 2, follow)
    THEN 2
    ELSE IF CharAt(text, p, 48..57) /\ CharAt(text, p + 1, follow) THEN 1
    ELSE 0

\* (\d{1,2}) at p, last in its pattern: greedy
Num12(text, p) ==
    IF CharAt(text, p, 48..57) /\ CharAt(text, p + 1, 48..57) THEN 2
    ELSE IF CharAt(text, p, 48..57) THEN 1
    ELSE 0

NoMatch == <<>>

\* r'(\d{4})[-./](\d{1,2})[-./](\d{1,2})' tried at position p: <<y, m, d>> or NoMatch
YmdSepAt(text, p) ==
    IF ~(Digits4At(text, p) /\ CharAt(text, p + 4, DateSeps)) THEN NoMatch
    ELSE LET nm == Num12Then(text, p + 5, DateSeps)
             nd == Num12(text, p + 5 + nm + 1)
         IN  IF nm = 0 \/ nd = 0 THEN NoMatch
             ELSE << ParseInt(SubSeq(text, p, p + 3)),
                     ParseInt(SubSeq(text, p + 5, p + 4 + nm)),
                     ParseInt(SubSeq(text, p + 6 + nm, p + 5 + nm + nd)) >>

\* r'(\d{4})년\s*(\d{1,2})월\s*(\d{1,2})일' tried at position p
YmdKorAt(text, p) ==
    IF ~(Digits4At(text, p) /\ At(ch_nyeon, text, p + 4)) THEN NoMatch
    ELSE LET pm == SpacesEnd(text, p + 5) + 1
             nm == Num12Then(text, pm, {ch_wol[1]})
             pd == SpacesEnd(text, pm + nm + 1) + 1
             nd == Num12Then(text, pd, {ch_il[1]})
         IN  IF nm = 0 \/ nd = 0 THEN NoMatch
             ELSE << ParseInt(SubSeq(text, p, p + 3)),
                     ParseInt(SubSeq(text, pm, pm + nm - 1)),
                     ParseInt(SubSeq(text, pd, pd + nd - 1)) >>

\* r'(\d{4})년?\s*(\d{1,2})월' tried at position p: <<y, m>> or NoMatch
YmAt(text, p) ==
    IF ~Digits4At(text, p) THEN NoMatch
    ELSE LET p1 == IF At(ch_nyeon, text, p + 4) THEN p + 5 ELSE p + 4
             pm == SpacesEnd(text, p1) + 1
             nm == Num12Then(text, pm, {ch_wol[1]})
         IN  IF nm = 0 THEN NoMatch
             ELSE << ParseInt(SubSeq(text, p, p + 3)),
                     ParseInt(SubSeq(text, pm, pm + nm - 1)) >>

\* r'(\d{4})년' tried at position p: <<y>> or NoMatch
YAt(text, p) ==
    IF Digits4At(text, p) /\ At(ch_nyeon, text, p + 4)
    THEN << ParseInt(SubSeq(text, p, p + 3)) >>
    ELSE NoMatch

\* re.search: the groups of the leftmost match
SearchYmdSep(text) ==
    LET ps == {p \in 1..Len(text) : YmdSepAt(text, p) # NoMatch}
    IN  IF ps = {} THEN NoMatch ELSE YmdSepAt(text, MinOf(ps))
SearchYmdKor(text) ==
    LET ps == {p \in 1..Len(text) : YmdKorAt(text, p) # NoMatch}
    IN  IF ps = {} THEN NoMatch ELSE YmdKorAt(text, MinOf(ps))
SearchYm(text) ==
    LET ps == {p \in 1..Len(text) : YmAt(text, p) # NoMatch}
    IN  IF ps = {} THEN NoMatch ELSE YmAt(text, MinOf(ps))
SearchY(text) ==
    LET ps == {p \in 1..Len(text) : YAt(text, p) # NoMatch}
    IN  IF ps = {} THEN NoMatch ELSE YAt(text, MinOf(ps))

\* datetime(y, m, d) < now; a ValueError of datetime() is caught: not expired
DateBefore(y, m, d, now) ==
    IF ValidDate(y, m, d) THEN DateLess(<<y, m, d, 0>>, now) ELSE FALSE

\* _is_deadline_expired raises (str methods on a value that is no str)
deadline_expired_raises(deadline) == deadline = NonStrText

\* a year-month deadline taken to end when its month begins
is_deadline_expired_MonthStart(deadline, now) ==
    IF ~Truthy(deadline) THEN FALSE
    ELSE LET deadline_lower == Strip(Lower(deadline))
             ymd1 == SearchYmdSep(deadline)
             ymd2 == SearchYmdKor(deadline)
             ym == SearchYm(deadline)
             yy == SearchY(deadline)
         IN  IF \E k \in 1..Len(ongoing_keywords) :
                    Contains(ongoing_keywords[k], deadline_lower)
             THEN FALSE
             ELSE IF ymd1 # NoMatch THEN DateBefore(ymd1[1], ymd1[2], ymd1[3], now)
             ELSE IF ymd2 # NoMatch THEN DateBefore(ymd2[1], ymd2[2], ymd2[3], now)
             ELSE IF ym # NoMatch
                  THEN DateBefore(ym[1], ym[2], 1, now)
             ELSE IF yy # NoMatch THEN DateBefore(yy[1] + 1, 1, 1, now)
             ELSE FALSE

\* _is_deadline_expired(deadline), with datetime.now() = now
is_deadline_expired(deadline, now) ==
    IF ~Truthy(deadline) THEN FALSE
    ELSE LET deadline_lower == Strip(Lower(deadline))
             ymd1 == SearchYmdSep(deadline)
             ymd2 == SearchYmdKor(deadline)
             ym == SearchYm(deadline)
             yy == SearchY(deadline)
         IN  IF \E k \in 1..Len(ongoing_keywords) :
                    Contains(ongoing_keywords[k], deadline_lower)
             THEN FALSE
             ELSE IF ymd1 # NoMatch THEN DateBefore(ymd1[1], ymd1[2], ymd1[3], now)
             ELSE IF ymd2 # NoMatch THEN DateBefore(ymd2[1], ymd2[2], ymd2[3], now)
             ELSE IF ym # NoMatch
                  THEN IF ym[2] = 12 THEN DateBefore(ym[1] + 1, 1, 1, now)
                       ELSE DateBefore(ym[1], ym[2] + 1, 1, now)
             ELSE IF yy # NoMatch THEN DateBefore(yy[1] + 1, 1, 1, now)
             ELSE FALSE

\* _is_deadline_far(deadline)
is_deadline_far(deadline) ==
    Contains(<<50, 48, 50, 52>>, deadline) \/ Contains(<<50, 48, 50, 53>>, deadline)

\* _is_deadline_soon(deadline), with datetime.now() = now
is_deadline_soon(deadline, now) == Contains(IntToStr(now[2]), deadline)

\* ------------------------------------------------------------------------
\* Score budgets (tenths of a point)
\* ------------------------------------------------------------------------

\* self.score_weights
score_weights == [condition_match |-> 400, benefit_size |-> 300, ease_of_application |-> 300]
\* self.condition_weights
condition_weights == [age |-> 100, region |-> 100, income |-> 100, employment |-> 100]

\* a matcher's result: eligible, score = num / den tenths, and whether the
\* except branch produced it
Match(eligible, num, den, failed) ==
    [eligible |-> eligible, num |-> num, den |-> den, failed |-> failed]

Abs(x) == IF x < 0 THEN 0 - x ELSE x

\* ------------------------------------------------------------------------
\* Condition Matchers
\* ------------------------------------------------------------------------

\* the range test without its upper bound
check_age_match_NoUpperBound(user_age, policy_age_min, policy_age_max) ==
    LET p_min == IF policy_age_min # NoneInt /\ policy_age_min > 0 THEN policy_age_min ELSE 0
        p_max == IF policy_age_max # NoneInt /\ policy_age_max > 0 THEN policy_age_max ELSE 100
        age_range == p_max - p_min
        dist2 == Abs(2 * user_age - (p_min + p_max))
    IN  IF p_min = 0 /\ p_max = 100 THEN Match(TRUE, condition_weights.age, 1, FALSE)
        ELSE IF user_age = NoneInt
             THEN Match(TRUE, condition_weights.age \div 2, 1, TRUE)
        ELSE IF p_min <= user_age
             THEN IF age_range = 0 THEN Match(TRUE, condition_weights.age, 1, FALSE)
                  ELSE IF 2 * (age_range - dist2) >= age_range
                       THEN Match(TRUE, condition_weights.age * (age_range - dist2), age_range, FALSE)
                       ELSE Match(TRUE, condition_weights.age \div 2, 1, FALSE)
        ELSE Match(FALSE, 0, 1, FALSE)

\* the linear decay without its floor of one half
check_age_match_NoFloor(user_age, policy_age_min, policy_age_max) ==
    LET p_min == IF policy_age_min # NoneInt /\ policy_age_min > 0 THEN policy_age_min ELSE 0
        p_max == IF policy_age_max # NoneInt /\ policy_age_max > 0 THEN policy_age_max ELSE 100
        age_range == p_max - p_min
        \* distance_from_center / max_distance = dist2 / age_range
        dist2 == Abs(2 * user_age - (p_min + p_max))
    IN  IF p_min = 0 /\ p_max = 100 THEN Match(TRUE, condition_weights.age, 1, FALSE)
        ELSE IF user_age = NoneInt
             THEN \* TypeError on the comparison: judged leniently
                  Match(TRUE, condition_weights.age \div 2, 1, TRUE)
        ELSE IF p_min <= user_age /\ user_age <= p_max
             THEN IF age_range = 0 THEN Match(TRUE, condition_weights.age, 1, FALSE)
                  ELSE Match(TRUE, condition_weights.age * (age_range - dist2), age_range, FALSE)
        ELSE Match(FALSE, 0, 1, FALSE)

\* check_age_match(user_age, policy_age_min, policy_age_max)
check_age_match(user_age, policy_age_min, policy_age_max) ==
    LET p_min == IF policy_age_min # NoneInt /\ policy_age_min > 0 THEN policy_age_min ELSE 0
        p_max == IF policy_age_max # NoneInt /\ policy_age_max > 0 THEN policy_age_max ELSE 100
        age_range == p_max - p_min
        \* distance_from_center / max_distance = dist2 / age_range
        dist2 == Abs(2 * user_age - (p_min + p_max))
    IN  IF p_min = 0 /\ p_max = 100 THEN Match(TRUE, condition_weights.age, 1, FALSE)
        ELSE IF user_age = NoneInt
             THEN \* TypeError on the comparison: judged leniently
                  Match(TRUE, condition_weights.age \div 2, 1, TRUE)
        ELSE IF p_min <= user_age /\ user_age <= p_max
             THEN IF age_range = 0 THEN Match(TRUE, condition_weights.age, 1, FALSE)
                  ELSE IF 2 * (age_range - dist2) >= age_range
                       THEN Match(TRUE, condition_weights.age * (age_range - dist2), age_range, FALSE)
                       ELSE Match(TRUE, condition_weights.age \div 2, 1, FALSE)
        ELSE Match(FALSE, 0, 1, FALSE)

nationwide == <<51204, 44397>>   \* "전국"

\* region_map of normalize(), in the dict's order: <<key, value>>
region_map ==
    <<
       <<<<49436, 50872>>, <<49436, 50872>>>>,
       <<<<49436, 50872, 53945, 48324, 49884>>, <<49436, 50872>>>>,
       <<<<44221, 44592>>, <<44221, 44592>>>>,
       <<<<44221, 44592, 46020>>, <<44221, 44592>>>>,
       <<<<51064, 52380>>, <<51064, 52380>>>>,
       <<<<51064, 52380, 44305, 50669, 49884>>, <<51064, 52380>>>>,
       <<<<48512, 49328>>, <<48512, 49328>>>>,
       <<<<48512, 49328, 44305, 50669, 49884>>, <<48512, 49328>>>>,
       <<<<48512, 49328, 51652, 44396>>, <<48512, 49328>>>>,
       <<<<50672, 51228, 44396>>, <<48512, 49328>>>>,
       <<<<44592, 51109, 44400>>, <<48512, 49328>>>>,
       <<<<45824, 44396>>, <<45824, 44396>>>>,
       <<<<45824, 44396, 44305, 50669, 49884>>, <<45824, 44396>>>>,
       <<<<44305, 51452>>, <<44305, 51452>>>>,
       <<<<44305, 51452, 44305, 50669, 49884>>, <<44305, 51452>>>>,
       <<<<45824, 51204>>, <<45824, 51204>>>>,
       <<<<45824, 51204, 44305, 50669, 49884>>, <<45824, 51204>>>>,
       <<<<50872, 49328>>, <<50872, 49328>>>>,
       <<<<50872, 49328, 44305, 50669, 49884>>, <<50872, 49328>>>>,
       <<<<49464, 51333>>, <<49464, 51333>>>>,
       <<<<49464, 51333, 53945, 48324, 51088, 52824, 49884>>, <<49464, 51333>>>>,
       <<<<44053, 50896>>, <<44053, 50896>>>>,
       <<<<44053, 50896, 46020>>, <<44053, 50896>>>>,
       <<<<44053, 50896, 53945, 48324, 51088, 52824, 46020>>, <<44053, 50896>>>>,
       <<<<52649, 48513>>, <<52649, 48513>>>>,
       <<<<52649, 52397, 48513, 46020>>, <<52649, 48513>>>>,
       <<<<52649, 45224>>, <<52649, 45224>>>>,
       <<<<52649, 52397, 45224, 46020>>, <<52649, 45224>>>>,
       <<<<51204, 48513>>, <<51204, 48513>>>>,
       <<<<51204, 46972, 48513, 46020>>, <<51204, 48513>>>>,
       <<<<51204, 48513, 53945, 48324, 51088, 52824, 46020>>, <<51204, 48513>>>>,
       <<<<51204, 45224>>, <<51204, 45224>>>>,
       <<<<51204, 46972, 45224, 46020>>, <<51204, 45224>>>>,
       <<<<44221, 48513>>, <<44221, 48513>>>>,
       <<<<44221, 49345, 48513, 46020>>, <<44221, 48513>>>>,
       <<<<44221, 45224>>, <<44221, 45224>>>>,
       <<<<44221, 49345, 45224, 46020>>, <<44221, 45224>>>>,
       <<<<51228, 51452>>, <<51228, 51452>>>>,
       <<<<51228, 51452, 46020>>, <<51228, 51452>>>>,
       <<<<51228, 51452, 53945, 48324, 51088, 52824, 46020>>, <<51228, 51452>>>>
    >>

\* normalize(region)
normalize(region) ==
    LET r == Strip(region)
        exact == {k \in 1..Len(region_map) : region_map[k][1] = r}
        partial == {k \in 1..Len(region_map) : Contains(region_map[k][1], r)}
    IN  IF exact # {} THEN region_map[MinOf(exact)][2]
        ELSE IF partial # {} THEN region_map[MinOf(partial)][2]
        ELSE r

\* the nationwide test by equality instead of containment
check_region_match_ExactNationwide(user_region, policy_regions) ==
    IF policy_regions = NoneList \/ policy_regions = <<>>
    THEN Match(TRUE, condition_weights.region, 1, FALSE)
    ELSE LET n == Len(policy_regions)
             \* the entries that are nationwide, and those that are no str
             nat == {k \in 1..n : IsStr(policy_regions[k]) /\ policy_regions[k] = nationwide}
             bad == {k \in 1..n : ~IsStr(policy_regions[k])}
             lenient == Match(TRUE, condition_weights.region \div 2, 1, TRUE)
             region_count == n
         IN  IF nat # {} /\ (bad = {} \/ MinOf(nat) < MinOf(bad))
             THEN Match(TRUE, condition_weights.region, 1, FALSE)
             ELSE IF bad # {}
                  THEN lenient       \* TypeError in the nationwide loop
             ELSE IF ~Truthy(user_region)
                  THEN Match(TRUE, condition_weights.region \div 2, 1, FALSE)
             ELSE IF user_region = NonStrText
                  THEN lenient       \* AttributeError in normalize()
             ELSE IF \E k \in 1..n : normalize(user_region) = normalize(policy_regions[k])
                  THEN IF region_count = 1 THEN Match(TRUE, condition_weights.region, 1, FALSE)
                       ELSE IF region_count <= 3
                            THEN Match(TRUE, (condition_weights.region * 9) \div 10, 1, FALSE)
                            ELSE Match(TRUE, (condition_weights.region * 8) \div 10, 1, FALSE)
             ELSE Match(FALSE, 0, 1, FALSE)

\* the score scaled by the position of the matching entry instead of the
\* length of the list
check_region_match_ScoreByPosition(user_region, policy_regions) ==
    IF policy_regions = NoneList \/ policy_regions = <<>>
    THEN Match(TRUE, condition_weights.region, 1, FALSE)
    ELSE LET n == Len(policy_regions)
             \* the entries that are nationwide, and those that are no str
             nat == {k \in 1..n : IsStr(policy_regions[k]) /\ Contains(nationwide, policy_regions[k])}
             bad == {k \in 1..n : ~IsStr(policy_regions[k])}
             lenient == Match(TRUE, condition_weights.region \div 2, 1, TRUE)
             region_count ==
                 MinOf({k \in 1..n : normalize(user_region) = normalize(policy_regions[k])}
                       \cup {n})
         IN  IF nat # {} /\ (bad = {} \/ MinOf(nat) < MinOf(bad))
             THEN Match(TRUE, condition_weights.region, 1, FALSE)
             ELSE IF bad # {}
                  THEN lenient       \* TypeError in the nationwide loop
             ELSE IF ~Truthy(user_region)
                  THEN Match(TRUE, condition_weights.region \div 2, 1, FALSE)
             ELSE IF user_region = NonStrText
                  THEN lenient       \* AttributeError in normalize()
             ELSE IF \E k \in 1..n : normalize(user_region) = normalize(policy_regions[k])
                  THEN IF region_count = 1 THEN Match(TRUE, condition_weights.region, 1, FALSE)
                       ELSE IF region_count <= 3
                            THEN Match(TRUE, (condition_weights.region * 9) \div 10, 1, FALSE)
                            ELSE Match(TRUE, (condition_weights.region * 8) \div 10, 1, FALSE)
             ELSE Match(FALSE, 0, 1, FALSE)

\* check_region_match(user_region, policy_regions)
check_region_match(user_region, policy_regions) ==
    IF policy_regions = NoneList \/ policy_regions = <<>>
    THEN Match(TRUE, condition_weights.region, 1, FALSE)
    ELSE LET n == Len(policy_regions)
             \* the entries that are nationwide, and those that are no str
             nat == {k \in 1..n : IsStr(policy_regions[k]) /\ Contains(nationwide, policy_regions[k])}
             bad == {k \in 1..n : ~IsStr(policy_regions[k])}
             lenient == Match(TRUE, condition_weights.region \div 2, 1, TRUE)
             region_count == n
         IN  IF nat # {} /\ (bad = {} \/ MinOf(nat) < MinOf(bad))
             THEN Match(TRUE, condition_weights.region, 1, FALSE)
             ELSE IF bad # {}
                  THEN lenient       \* TypeError in the nationwide loop
             ELSE IF ~Truthy(user_region)
                  THEN Match(TRUE, condition_weights.region \div 2, 1, FALSE)
             ELSE IF user_region = NonStrText
                  THEN lenient       \* AttributeError in normalize()
             ELSE IF \E k \in 1..n : normalize(user_region) = normalize(policy_regions[k])
                  THEN IF region_count = 1 THEN Match(TRUE, condition_weights.region, 1, FALSE)
                       ELSE IF region_count <= 3
                            THEN Match(TRUE, (condition_weights.region * 9) \div 10, 1, FALSE)
                            ELSE Match(TRUE, (condition_weights.region * 8) \div 10, 1, FALSE)
             ELSE Match(FALSE, 0, 1, FALSE)

\* the full tier for incomes strictly below half of the ceiling only
check_income_match_HalfExclusive(user_income, policy_income_max) ==
    IF policy_income_max = NoneInt \/ policy_income_max = 0
    THEN Match(TRUE, condition_weights.income, 1, FALSE)
    ELSE IF user_income = NoneInt
         THEN Match(TRUE, condition_weights.income \div 2, 1, TRUE)   \* TypeError
    ELSE IF user_income <= policy_income_max
         THEN \* income_ratio = user_income / policy_income_max
              IF 2 * user_income < policy_income_max
              THEN Match(TRUE, condition_weights.income, 1, FALSE)
              ELSE IF 10 * user_income <= 9 * policy_income_max
                   THEN Match(TRUE, (condition_weights.income * 9) \div 10, 1, FALSE)
                   ELSE Match(TRUE, (condition_weights.income * 8) \div 10, 1, FALSE)
    ELSE Match(FALSE, 0, 1, FALSE)

\* check_income_match(user_income, policy_income_max)
check_income_match(user_income, policy_income_max) ==
    IF policy_income_max = NoneInt \/ policy_income_max = 0
    THEN Match(TRUE, condition_weights.income, 1, FALSE)
    ELSE IF user_income = NoneInt
         THEN Match(TRUE, condition_weights.income \div 2, 1, TRUE)   \* TypeError
    ELSE IF user_income <= policy_income_max
         THEN \* income_ratio = user_income / policy_income_max
              IF 2 * user_income <= policy_income_max
              THEN Match(TRUE, condition_weights.income, 1, FALSE)
              ELSE IF 10 * user_income <= 9 * policy_income_max
                   THEN Match(TRUE, (condition_weights.income * 9) \div 10, 1, FALSE)
                   ELSE Match(TRUE, (condition_weights.income * 8) \div 10, 1, FALSE)
    ELSE Match(FALSE, 0, 1, FALSE)

\* the 90% tier multiplied by 9 instead of 0.9
check_employment_match_Unscaled(user_employment, policy_employment) ==
    IF policy_employment = NoneList \/ policy_employment = <<>>
    THEN Match(TRUE, condition_weights.employment, 1, FALSE)
    ELSE IF policy_employment = NonListValue
         THEN Match(TRUE, condition_weights.employment \div 2, 1, TRUE)
    ELSE IF \E k \in 1..Len(policy_employment) : policy_employment[k] = user_employment
         THEN IF Len(policy_employment) = 1
              THEN Match(TRUE, condition_weights.employment, 1, FALSE)
              ELSE Match(TRUE, condition_weights.employment * 9, 1, FALSE)
    ELSE Match(FALSE, 0, 1, FALSE)

\* a failure inside the matcher answers not eligible
check_employment_match_FailClosed(user_employment, policy_employment) ==
    IF policy_employment = NoneList \/ policy_employment = <<>>
    THEN Match(TRUE, condition_weights.employment, 1, FALSE)
    ELSE IF policy_employment = NonListValue
         THEN Match(FALSE, 0, 1, TRUE)
    ELSE IF \E k \in 1..Len(policy_employment) : policy_employment[k] = user_employment
         THEN IF Len(policy_employment) = 1
              THEN Match(TRUE, condition_weights.employment, 1, FALSE)
              ELSE Match(TRUE, (condition_weights.employment * 9) \div 10, 1, FALSE)
    ELSE Match(FALSE, 0, 1, FALSE)

\* check_employment_match(user_employment, policy_employment)
check_employment_match(user_employment, policy_employment) ==
    IF policy_employment = NoneList \/ policy_employment = <<>>
    THEN Match(TRUE, condition_weights.employment, 1, FALSE)
    ELSE IF policy_employment = NonListValue
         THEN \* TypeError on len() of a number: judged leniently
              Match(TRUE, condition_weights.employment \div 2, 1, TRUE)
    ELSE IF \E k \in 1..Len(policy_employment) : policy_employment[k] = user_employment
         THEN IF Len(policy_employment) = 1
              THEN Match(TRUE, condition_weights.employment, 1, FALSE)
              ELSE Match(TRUE, (condition_weights.employment * 9) \div 10, 1, FALSE)
    ELSE Match(FALSE, 0, 1, FALSE)

\* ------------------------------------------------------------------------
\* Amount Extractor
\* ------------------------------------------------------------------------

unit_manwon == <<47564, 50896>>            \* "만원"
unit_eok == <<50613>>                      \* "억"
unit_cheonmanwon == <<52380, 47564, 50896>> \* "천만원"
word_choedae == <<52572, 45824>>           \* "최대"

\* remove "," : amount_str.replace(',', '')
RECURSIVE StripCommas(_)
StripCommas(text) ==
    IF text = <<>> THEN <<>>
    ELSE IF text[1] = 44 THEN StripCommas(Tail(text))
    ELSE <<text[1]>> \o StripCommas(Tail(text))

\* r'(\d+,?\d*)\s*UNIT' tried at position p: the captured group, or NoMatch
AmountAt(text, p, unit) ==
    IF ~CharAt(text, p, 48..57) THEN NoMatch
    ELSE LET e1 == DigitsEnd(text, p)
             e2 == IF CharAt(text, e1 + 1, {44}) THEN DigitsEnd(text, e1 + 2) ELSE e1
             sp == SpacesEnd(text, e2 + 1)
         IN  IF At(unit, text, sp + 1) THEN SubSeq(text, p, e2) ELSE NoMatch

\* r'PREFIX\s*(\d+,?\d*)\s*UNIT' tried at position p
PrefixedAmountAt(text, p, prefix, unit) ==
    IF ~At(prefix, text, p) THEN NoMatch
    ELSE AmountAt(text, SpacesEnd(text, p + Len(prefix)) + 1, unit)

\* re.findall(pattern, text)[0] for the five patterns, or NoMatch
FindAmount(text, prefix, unit) ==
    LET ps == {p \in 1..Len(text) : PrefixedAmountAt(text, p, prefix, unit) # NoMatch}
    IN  IF ps = {} THEN NoMatch ELSE PrefixedAmountAt(text, MinOf(ps), prefix, unit)

\* patterns of _extract_amount_from_text, in order: <<prefix, unit>>
amount_patterns ==
    << <<EmptyText, unit_manwon>>,
       <<EmptyText, unit_eok>>,
       <<word_choedae, unit_manwon>>,
       <<ch_wol, unit_manwon>>,
       <<EmptyText, unit_cheonmanwon>> >>

\* the multiplier of the larger unit taken as 1000
extract_amount_from_text_Eok1000(text) ==
    IF ~IsStr(text) THEN 0
    ELSE LET hit == {k \in 1..Len(amount_patterns) :
                        FindAmount(text, amount_patterns[k][1], amount_patterns[k][2]) # NoMatch}
         IN  IF hit = {} THEN 0
             ELSE LET k == MinOf(hit)
                      amount == ParseInt(StripCommas(
                                   FindAmount(text, amount_patterns[k][1], amount_patterns[k][2])))
                  IN  IF Contains(unit_eok, text) THEN amount * 1000
                      ELSE IF Contains(unit_cheonmanwon, text) THEN amount * 1000
                      ELSE IF Contains(ch_wol, text) THEN amount * 12
                      ELSE amount

\* _extract_amount_from_text(text); a TypeError of re.findall (text is no
\* str) is caught: 0
extract_amount_from_text(text) ==
    IF ~IsStr(text) THEN 0
    ELSE LET hit == {k \in 1..Len(amount_patterns) :
                        FindAmount(text, amount_patterns[k][1], amount_patterns[k][2]) # NoMatch}
         IN  IF hit = {} THEN 0
             ELSE LET k == MinOf(hit)
                      amount == ParseInt(StripCommas(
                                   FindAmount(text, amount_patterns[k][1], amount_patterns[k][2])))
                  IN  IF Contains(unit_eok, text) THEN amount * 10000
                      ELSE IF Contains(unit_cheonmanwon, text) THEN amount * 1000
                      ELSE IF Contains(ch_wol, text) THEN amount * 12
                      ELSE amount

\* ------------------------------------------------------------------------
\* Benefit and ease scores
\* ------------------------------------------------------------------------

\* the floor written as 130% instead of 30%
benefit_tier_floor130(amount, max_score) ==
    IF amount = 0 THEN (max_score * 13) \div 10
    ELSE IF amount >= 3000 THEN max_score
    ELSE IF amount >= 2000 THEN (max_score * 9) \div 10
    ELSE IF amount >= 1000 THEN (max_score * 8) \div 10
    ELSE IF amount >= 500 THEN (max_score * 7) \div 10
    ELSE IF amount >= 200 THEN (max_score * 6) \div 10
    ELSE IF amount >= 100 THEN (max_score * 5) \div 10
    ELSE IF amount >= 50 THEN (max_score * 4) \div 10
    ELSE (max_score * 3) \div 10

\* the tier table cut down to its top and its floor
benefit_tier_TopOrFloor(amount, max_score) ==
    IF amount >= 3000 THEN max_score ELSE (max_score * 3) \div 10

\* the tier table of calculate_benefit_score
benefit_tier(amount, max_score) ==
    IF amount = 0 THEN (max_score * 3) \div 10
    ELSE IF amount >= 3000 THEN max_score
    ELSE IF amount >= 2000 THEN (max_score * 9) \div 10
    ELSE IF amount >= 1000 THEN (max_score * 8) \div 10
    ELSE IF amount >= 500 THEN (max_score * 7) \div 10
    ELSE IF amount >= 200 THEN (max_score * 6) \div 10
    ELSE IF amount >= 100 THEN (max_score * 5) \div 10
    ELSE IF amount >= 50 THEN (max_score * 4) \div 10
    ELSE (max_score * 3) \div 10

\* the amount of the benefit text preferred to the budget figure
calculate_benefit_score_TextFirst(benefit, budget_max) ==
    LET max_score == score_weights.benefit_size
        extracted == extract_amount_from_text(benefit)
        amount == IF extracted > 0 THEN extracted
                  ELSE IF budget_max # NoneInt /\ budget_max > 0 THEN budget_max
                  ELSE 0
    IN  benefit_tier(amount, max_score)

\* calculate_benefit_score(benefit, budget_max)
calculate_benefit_score(benefit, budget_max) ==
    LET max_score == score_weights.benefit_size
        amount == IF budget_max # NoneInt /\ budget_max > 0 THEN budget_max
                  ELSE extract_amount_from_text(benefit)
    IN  benefit_tier(amount, max_score)

\* the tier of the deadline sub-score of calculate_ease_score
deadline_tier(deadline, now) ==
    IF ~Truthy(deadline) THEN "none"
    ELSE IF Contains(kw_sangsi, deadline) \/ Contains(kw_yeonjung, deadline)
            \/ Contains(kw_susi, deadline) THEN "ongoing"
    ELSE IF is_deadline_far(deadline) THEN "far"
    ELSE IF is_deadline_soon(deadline, now) THEN "soon"
    ELSE "normal"

\* the deadline sub-score of calculate_ease_score: nothing is added when the
\* program has no deadline
deadline_score(deadline, now) ==
    LET third == score_weights.ease_of_application \div 3
        tier == deadline_tier(deadline, now)
    IN  IF tier = "none" THEN 0
        ELSE IF tier = "ongoing" THEN third
        ELSE IF tier = "far" THEN (third * 8) \div 10
        ELSE IF tier = "soon" THEN (third * 4) \div 10
        ELSE (third * 6) \div 10

\* calculate_ease_score(policy), with datetime.now() = now
calculate_ease_score(policy, now) ==
    LET max_score == score_weights.ease_of_application
        third == max_score \div 3
        application_url == IF Truthy(policy.application_url) THEN policy.application_url
                           ELSE policy.website_url
        url_score == IF Truthy(application_url) THEN third ELSE 0
        req_count == Len(policy.requirements)
        req_score == IF policy.requirements = NoneList THEN 0
                     ELSE IF req_count <= 2 THEN third
                     ELSE IF req_count <= 4 THEN (third * 8) \div 10
                     ELSE IF req_count <= 6 THEN (third * 6) \div 10
                     ELSE (third * 4) \div 10
    IN  IF policy.deadline = NonStrText
        THEN max_score \div 2      \* TypeError of `word in deadline`, caught
        ELSE Min2(url_score + deadline_score(policy.deadline, now) + req_score, max_score)

\* ------------------------------------------------------------------------
\* Inputs
\* ------------------------------------------------------------------------

MaxCatalog == 2

s_seoul == <<49436, 50872>>                 \* "서울"
s_busan == <<48512, 49328>>                 \* "부산"
s_jeju == <<51228, 51452>>                  \* "제주"
s_seoul_full == <<49436, 50872, 53945, 48324, 49884>>   \* "서울특별시"
s_job_seeker == <<44396, 51649, 51088>>     \* "구직자"
s_employed == <<51116, 51649, 51088>>       \* "재직자"
s_student == <<54617, 49373>>               \* "학생"
s_url == <<104, 116, 116, 112>>             \* "http"
d_ongoing == <<50672, 51473, 32, 49345, 49884>>   \* "연중 상시"
d_2026_01_01 == <<50, 48, 50, 54, 45, 48, 49, 45, 48, 49>>   \* "2026-01-01"
d_2026_06 == <<50, 48, 50, 54, 45380, 32, 54, 50900>>        \* "2026년 6월"
d_undecided == <<48120, 51221>>             \* "미정"
b_monthly == <<50900, 32, 53, 48, 47564, 50896>>   \* "월 50만원"
b_none == <<51648, 50896>>                  \* "지원"
b_upto_3000 == <<52572, 45824, 32, 51, 48, 48, 48, 47564, 50896, 32, 51648, 44553>>
                                            \* "최대 3000만원 지급"
b_1eok == <<49, 50613, 32, 51648, 50896>>   \* "1억 지원"
b_upto_1200 == <<52572, 45824, 32, 49, 50, 48, 48, 47564, 50896>>   \* "최대 1200만원"

\* the instants datetime.now() may return during a call
Instants == { <<2025, 12, 31, 1>>, <<2026, 1, 1, 0>>, <<2026, 1, 1, 1>> }

\* user_profile_1 of the module's own test, and variations
BaseProfile == [age |-> 25, region |-> s_seoul, income |-> 3000, employment |-> s_job_seeker]
Profiles ==
    { BaseProfile,
      [BaseProfile EXCEPT !.age = 45, !.region = s_busan, !.income = 7000,
                          !.employment = s_employed] }

\* sample_policies[0] of the module's own test
BasePolicy ==
    [ policy_id |-> <<74>>, title |-> <<116>>, category |-> <<99>>,
      target_age_min |-> 15, target_age_max |-> 34,
      target_regions |-> <<nationwide>>,
      target_employment |-> <<s_job_seeker>>,
      target_income_max |-> 6000,
      benefit |-> b_none, budget_max |-> 1200,
      deadline |-> d_ongoing,
      application_url |-> s_url, website_url |-> EmptyText,
      requirements |-> <<>> ]

\* programs of the ranking runs: equal scores with different deadlines, no
\* deadline, a deadline that passes while the call runs
TiedLater == [BasePolicy EXCEPT !.policy_id = <<65>>, !.deadline = d_2026_06]
TiedNoDeadline == [BasePolicy EXCEPT !.policy_id = <<66>>, !.deadline = NoneText,
                                     !.budget_max = 3000]
TiedUndecided == [BasePolicy EXCEPT !.policy_id = <<68>>, !.deadline = d_undecided]
Expiring == [BasePolicy EXCEPT !.policy_id = <<69>>, !.deadline = d_2026_01_01]
\* a record whose MatchingResult cannot be built (policy_id is None)
Unbuildable == [BasePolicy EXCEPT !.policy_id = NoneText]

PolicyPool == { BasePolicy, TiedLater, TiedNoDeadline, TiedUndecided, Expiring, Unbuildable }

RECURSIVE SeqsUpTo(_, _)
SeqsUpTo(S, n) ==
    IF n = 0 THEN { <<>> }
    ELSE LET shorter == SeqsUpTo(S, n - 1)
         IN  shorter \cup { Append(q, x) : q \in shorter, x \in S }

Catalogs == SeqsUpTo(PolicyPool, MaxCatalog)
MinScores == {0, 400, 895}
MaxResultsValues == {0 - 1, 1, MaxCatalog}

\* programs of the scoring runs: every combination of the fields below
AgeRanges == { <<NoneInt, NoneInt>>, <<15, 34>>, <<40, 50>>, <<25, 25>> }
RegionLists == { <<>>, <<nationwide>>, <<s_seoul_full>>, <<s_busan, nationwide \o s_seoul>>,
                 <<NoneText, nationwide>> }
IncomeMaxes == { NoneInt, 2000, 6000 }
EmploymentLists == { <<>>, <<s_job_seeker>>, <<s_employed, s_student>>, NoneList,
                     NonListValue }
Benefits == { <<b_none, NoneInt>>, <<b_monthly, 0>>, <<b_none, 3000>> }
Deadlines == { NoneText, d_ongoing, d_2026_01_01, NonStrText }
\* <<application_url, requirements>>: the easiest and the hardest application
EaseInputs == { <<s_url, <<>>>>, <<EmptyText, NoneList>> }

ScorePolicies ==
    { [BasePolicy EXCEPT !.target_age_min = a[1], !.target_age_max = a[2],
                         !.target_regions = r, !.target_income_max = c,
                         !.target_employment = e,
                         !.benefit = b[1], !.budget_max = b[2],
                         !.deadline = d, !.application_url = u[1], !.requirements = u[2]] :
        a \in AgeRanges, r \in RegionLists, c \in IncomeMaxes, e \in EmploymentLists,
        b \in Benefits, d \in Deadlines, u \in EaseInputs }

\* a profile that did not pass through validation
MalformedProfile ==
    [age |-> NoneInt, region |-> NonStrText, income |-> NoneInt, employment |-> NoneText]
ScoreProfiles ==
    Profiles \cup { [age |-> 34, region |-> EmptyText, income |-> 1000, employment |-> s_student],
                    MalformedProfile }

\* ------------------------------------------------------------------------
\* State
\* ------------------------------------------------------------------------

VARIABLES
    user_profile,      \* argument of match_policies
    policies,          \* argument of match_policies
    min_score,         \* argument of match_policies (tenths)
    max_results,       \* argument of match_policies
    now,               \* the value datetime.now() returns at this moment
    pc,                \* position in match_policies / calculate_score
    i,                 \* the loop index of match_policies (1-based)
    loc,               \* locals of the running calculate_score
    ret,               \* what the last calculate_score returned
    matching_results,  \* the list built by match_policies
    result,            \* what match_policies returned
    log                \* per program: what the Deadline Analyzer answered

vars == << user_profile, policies, min_score, max_results, now, pc, i, loc, ret,
           matching_results, result, log >>

NoRet == [score |-> 0 - 1, reasons |-> <<>>]

\* locals at the start of calculate_score
FreshLoc ==
    [ age |-> Match(FALSE, 0, 1, FALSE), region |-> 0, income |-> 0, employment |-> 0,
      income_match |-> FALSE, employment_match |-> FALSE,
      benefit |-> 0, ease |-> 0,
      match_reasons |-> <<>>,
      evaluated |-> <<>> ]

NoLog == [expired |-> "unread", tier |-> "unread", at |-> <<>>, ease_at |-> <<>>]

policy == policies[i]

\* the except branch of calculate_score
ErrorRet == [score |-> 0, reasons |-> <<"error">>]

Ran(step) == [loc EXCEPT !.evaluated = Append(@, step)]

\* ------------------------------------------------------------------------
\* calculate_score, one step per matcher
\* ------------------------------------------------------------------------

\* match_reasons kept between calls instead of starting empty
CheckDeadline_KeepsReasons ==
    /\ pc = "deadline"
    /\ IF deadline_expired_raises(policy.deadline)
       THEN /\ ret' = ErrorRet
            /\ pc' = "collect"
            /\ log' = [log EXCEPT ![i].expired = "raised", ![i].at = now]
       ELSE IF is_deadline_expired(policy.deadline, now)
            THEN /\ ret' = [score |-> 0, reasons |-> <<"deadline_passed">>]
                 /\ pc' = "collect"
                 /\ log' = [log EXCEPT ![i].expired = "yes", ![i].at = now]
            ELSE /\ ret' = NoRet
                 /\ pc' = "age"
                 /\ log' = [log EXCEPT ![i].expired = "no", ![i].at = now]
    /\ loc' = [FreshLoc EXCEPT !.evaluated = <<"deadline">>,
                               !.match_reasons = loc.match_reasons]
    /\ UNCHANGED << user_profile, policies, min_score, max_results, now, i,
                    matching_results, result >>

\* the deadline check without its early return
CheckDeadline_NoReturn ==
    /\ pc = "deadline"
    /\ ~deadline_expired_raises(policy.deadline)
    /\ ret' = NoRet
    /\ pc' = "age"
    /\ log' = [log EXCEPT ![i].expired =
                    IF is_deadline_expired(policy.deadline, now) THEN "yes" ELSE "no",
                  ![i].at = now]
    /\ loc' = [FreshLoc EXCEPT !.evaluated = <<"deadline">>]
    /\ UNCHANGED << user_profile, policies, min_score, max_results, now, i,
                    matching_results, result >>

\* 0. deadline check
CheckDeadline ==
    /\ pc = "deadline"
    /\ IF deadline_expired_raises(policy.deadline)
       THEN /\ ret' = ErrorRet
            /\ pc' = "collect"
            /\ log' = [log EXCEPT ![i].expired = "raised", ![i].at = now]
       ELSE IF is_deadline_expired(policy.deadline, now)
            THEN /\ ret' = [score |-> 0, reasons |-> <<"deadline_passed">>]
                 /\ pc' = "collect"
                 /\ log' = [log EXCEPT ![i].expired = "yes", ![i].at = now]
            ELSE /\ ret' = NoRet
                 /\ pc' = "age"
                 /\ log' = [log EXCEPT ![i].expired = "no", ![i].at = now]
    /\ loc' = [FreshLoc EXCEPT !.evaluated = <<"deadline">>]
    /\ UNCHANGED << user_profile, policies, min_score, max_results, now, i,
                    matching_results, result >>

\* the age filter without its early return
CheckAge_NoReturn ==
    /\ pc = "age"
    /\ LET m == check_age_match(user_profile.age, policy.target_age_min, policy.target_age_max)
       IN  loc' = IF m.eligible
                  THEN [Ran("age") EXCEPT !.age = m, !.match_reasons = Append(@, "age_fit")]
                  ELSE Ran("age")
    /\ pc' = "region"
    /\ UNCHANGED << user_profile, policies, min_score, max_results, now, i, ret,
                    matching_results, result, log >>

\* 1. age condition: a hard filter
CheckAge ==
    /\ pc = "age"
    /\ LET m == check_age_match(user_profile.age, policy.target_age_min, policy.target_age_max)
       IN  IF m.eligible
           THEN /\ loc' = [Ran("age") EXCEPT !.age = m,
                                             !.match_reasons = Append(@, "age_fit")]
                /\ pc' = "region"
                /\ ret' = ret
           ELSE /\ loc' = Ran("age")
                /\ ret' = [score |-> 0, reasons |-> <<"age_mismatch">>]
                /\ pc' = "collect"
    /\ UNCHANGED << user_profile, policies, min_score, max_results, now, i,
                    matching_results, result, log >>

\* ", ".join(list) raises TypeError
JoinRaises(list) ==
    \/ list = NoneList
    \/ list = NonListValue
    \/ \E k \in 1..Len(list) : ~IsStr(list[k])

\* region condition: a hard filter
CheckRegion ==
    /\ pc = "region"
    /\ LET m == check_region_match(user_profile.region, policy.target_regions)
       IN  IF m.eligible
           THEN IF policy.target_regions # NoneList /\ policy.target_regions # <<>>
                   /\ JoinRaises(policy.target_regions)
                THEN /\ loc' = [Ran("region") EXCEPT !.region = m.num]
                     /\ ret' = ErrorRet
                     /\ pc' = "collect"
                ELSE /\ loc' = [Ran("region") EXCEPT !.region = m.num,
                                                     !.match_reasons = Append(@, "region_fit")]
                     /\ pc' = "income"
                     /\ ret' = ret
           ELSE /\ loc' = Ran("region")
                /\ ret' = [score |-> 0, reasons |-> <<"region_mismatch">>]
                /\ pc' = "collect"
    /\ UNCHANGED << user_profile, policies, min_score, max_results, now, i,
                    matching_results, result, log >>

\* income condition: a soft filter
CheckIncome ==
    /\ pc = "income"
    /\ LET m == check_income_match(user_profile.income, policy.target_income_max)
       IN  loc' = IF m.eligible
                  THEN [Ran("income") EXCEPT
                          !.income = m.num, !.income_match = TRUE,
                          !.match_reasons =
                              Append(@, IF policy.target_income_max # NoneInt
                                           /\ policy.target_income_max # 0
                                        THEN "income_fit" ELSE "income_unlimited")]
                  ELSE Ran("income")
    /\ pc' = "employment"
    /\ UNCHANGED << user_profile, policies, min_score, max_results, now, i, ret,
                    matching_results, result, log >>

\* employment condition: a soft filter
CheckEmployment ==
    /\ pc = "employment"
    /\ LET m == check_employment_match(user_profile.employment, policy.target_employment)
       IN  IF m.eligible
           THEN IF JoinRaises(policy.target_employment)
                THEN /\ loc' = [Ran("employment") EXCEPT !.employment = m.num,
                                                         !.employment_match = TRUE]
                     /\ ret' = ErrorRet
                     /\ pc' = "collect"
                ELSE /\ loc' = [Ran("employment") EXCEPT
                                  !.employment = m.num, !.employment_match = TRUE,
                                  !.match_reasons = Append(@, "employment_fit")]
                     /\ pc' = "benefit"
                     /\ ret' = ret
           ELSE /\ loc' = Ran("employment")
                /\ pc' = "benefit"
                /\ ret' = ret
    /\ UNCHANGED << user_profile, policies, min_score, max_results, now, i,
                    matching_results, result, log >>

\* 2. benefit size
BenefitScore ==
    /\ pc = "benefit"
    /\ LET benefit_score == calculate_benefit_score(policy.benefit, policy.budget_max)
       IN  loc' = [Ran("benefit") EXCEPT
                     !.benefit = benefit_score,
                     !.match_reasons =
                         IF benefit_score > 200 THEN Append(@, "benefit_high")
                         ELSE IF benefit_score > 100 THEN Append(@, "benefit_moderate")
                         ELSE @]
    /\ pc' = "ease"
    /\ UNCHANGED << user_profile, policies, min_score, max_results, now, i, ret,
                    matching_results, result, log >>

\* round(total_score, 1) of acc + num / den tenths. A total exactly halfway
\* between two tenths ends in .25 or .75, which the float holds exactly, and
\* round() takes it to the even tenth.
RoundTenths(acc, num, den) ==
    LET q == num \div den
        r == num % den
    IN  IF 2 * r < den THEN acc + q
        ELSE IF 2 * r > den THEN acc + q + 1
        ELSE IF (acc + q) % 2 = 0 THEN acc + q
        ELSE acc + q + 1

\* 3. ease of application, and the return
EaseScore ==
    /\ pc = "ease"
    /\ LET ease_score == calculate_ease_score(policy, now)
           reasons == IF ease_score > 200 THEN Append(loc.match_reasons, "ease_simple")
                      ELSE IF ease_score > 150 THEN Append(loc.match_reasons, "ease_normal")
                      ELSE loc.match_reasons
           acc == loc.region + loc.income + loc.employment + loc.benefit + ease_score
       IN  /\ loc' = [Ran("ease") EXCEPT !.ease = ease_score, !.match_reasons = reasons]
           /\ ret' = [score |-> RoundTenths(acc, loc.age.num, loc.age.den),
                      reasons |-> reasons]
    /\ log' = [log EXCEPT ![i].tier = deadline_tier(policy.deadline, now), ![i].ease_at = now]
    /\ pc' = "collect"
    /\ UNCHANGED << user_profile, policies, min_score, max_results, now, i,
                    matching_results, result >>

\* ------------------------------------------------------------------------
\* match_policies
\* ------------------------------------------------------------------------

\* MatchingResult(...) passes pydantic's validation
MatchingResultValid(pol, score) ==
    /\ IsStr(pol.policy_id) /\ IsStr(pol.title) /\ IsStr(pol.category)
    /\ score >= 0 /\ score <= 1000
    /\ IsStr(pol.benefit)
    /\ pol.deadline # NonStrText

MatchingResult(pol, score, match_reasons) ==
    [ policy_id |-> pol.policy_id, title |-> pol.title, category |-> pol.category,
      score |-> score, match_reasons |-> match_reasons,
      benefit_summary |-> pol.benefit, deadline |-> pol.deadline ]

\* the sort key's second component: x.deadline or ""
DeadlineKey(x) == IF Truthy(x.deadline) THEN x.deadline ELSE EmptyText

\* the sort key without its second component
KeyLess_ScoreOnly(a, b) == a.score > b.score

\* key(a) < key(b) for key = (-x.score, x.deadline or "")
KeyLess(a, b) ==
    \/ a.score > b.score
    \/ a.score = b.score /\ StrLess(DeadlineKey(a), DeadlineKey(b))

\* list.sort(key=...): stable, so x goes after every element whose key is
\* not greater than its own
RECURSIVE InsertSorted(_, _)
InsertSorted(sorted, x) ==
    IF sorted = <<>> THEN <<x>>
    ELSE IF KeyLess(x, sorted[1]) THEN <<x>> \o sorted
    ELSE <<sorted[1]>> \o InsertSorted(Tail(sorted), x)

RECURSIVE SortResults(_)
SortResults(list) ==
    IF list = <<>> THEN <<>>
    ELSE InsertSorted(SortResults(SubSeq(list, 1, Len(list) - 1)), list[Len(list)])

\* list[:k]
SliceTo(list, k) ==
    IF k >= 0 THEN SubSeq(list, 1, Min2(k, Len(list)))
    ELSE SubSeq(list, 1, Max2(Len(list) + k, 0))

\* the loop body without the try/except around it: a ValidationError leaves
\* match_policies
Collect_NoExcept ==
    /\ pc = "collect"
    /\ IF ret.score >= min_score
       THEN IF MatchingResultValid(policy, ret.score)
            THEN /\ matching_results' =
                        Append(matching_results, MatchingResult(policy, ret.score, ret.reasons))
                 /\ pc' = IF i < Len(policies) THEN "deadline" ELSE "sort"
                 /\ i' = i + 1
            ELSE /\ matching_results' = matching_results
                 /\ pc' = "escaped"
                 /\ i' = i
       ELSE /\ matching_results' = matching_results
            /\ pc' = IF i < Len(policies) THEN "deadline" ELSE "sort"
            /\ i' = i + 1
    /\ UNCHANGED << user_profile, policies, min_score, max_results, now, loc, ret, log,
                    result >>

\* the loop body with a strict threshold
Collect_StrictThreshold ==
    /\ pc = "collect"
    /\ IF ret.score > min_score
       THEN IF MatchingResultValid(policy, ret.score)
            THEN /\ matching_results' =
                        Append(matching_results, MatchingResult(policy, ret.score, ret.reasons))
                 /\ pc' = IF i < Len(policies) THEN "deadline" ELSE "sort"
                 /\ i' = i + 1
                 /\ result' = result
            ELSE \* ValidationError: the except branch of match_policies
                 /\ matching_results' = matching_results
                 /\ pc' = "done"
                 /\ i' = i
                 /\ result' = <<>>
       ELSE /\ matching_results' = matching_results
            /\ pc' = IF i < Len(policies) THEN "deadline" ELSE "sort"
            /\ i' = i + 1
            /\ result' = result
    /\ UNCHANGED << user_profile, policies, min_score, max_results, now, loc, ret, log >>

\* the loop body after calculate_score: keep the program if score >= min_score
Collect ==
    /\ pc = "collect"
    /\ IF ret.score >= min_score
       THEN IF MatchingResultValid(policy, ret.score)
            THEN /\ matching_results' =
                        Append(matching_results, MatchingResult(policy, ret.score, ret.reasons))
                 /\ pc' = IF i < Len(policies) THEN "deadline" ELSE "sort"
                 /\ i' = i + 1
                 /\ result' = result
            ELSE \* ValidationError: the except branch of match_policies
                 /\ matching_results' = matching_results
                 /\ pc' = "done"
                 /\ i' = i
                 /\ result' = <<>>
       ELSE /\ matching_results' = matching_results
            /\ pc' = IF i < Len(policies) THEN "deadline" ELSE "sort"
            /\ i' = i + 1
            /\ result' = result
    /\ UNCHANGED << user_profile, policies, min_score, max_results, now, loc, ret, log >>

\* sort by (-score, deadline) and return the first max_results
SortAndReturn ==
    /\ pc = "sort"
    /\ matching_results' = SortResults(matching_results)
    /\ result' = SliceTo(SortResults(matching_results), max_results)
    /\ pc' = "done"
    /\ UNCHANGED << user_profile, policies, min_score, max_results, now, i, loc, ret, log >>

\* time passes. The clock is read by _is_deadline_expired and by
\* _is_deadline_soon only, so its advance is observed at these two places;
\* before the first read, the instant of the entry is already any instant.
Tick ==
    /\ (pc = "deadline" /\ i > 1) \/ pc = "ease"
    /\ \E t \in Instants : DateLess(now, t) /\ now' = t
    /\ UNCHANGED << user_profile, policies, min_score, max_results, pc, i, loc, ret,
                    matching_results, result, log >>

Next ==
    \/ CheckDeadline
    \/ CheckAge
    \/ CheckRegion
    \/ CheckIncome
    \/ CheckEmployment
    \/ BenefitScore
    \/ EaseScore
    \/ Collect
    \/ SortAndReturn
    \/ Tick

\* the state at the entry of match_policies(user_profile, policies, min_score, max_results)
Entry(profile, catalog, ms, mr, t) ==
    /\ user_profile = profile
    /\ policies = catalog
    /\ min_score = ms
    /\ max_results = mr
    /\ now = t
    /\ pc = IF catalog = <<>> THEN "sort" ELSE "deadline"
    /\ i = 1
    /\ loc = FreshLoc
    /\ ret = NoRet
    /\ matching_results = <<>>
    /\ result = <<>>
    /\ log = [k \in 1..Len(catalog) |-> NoLog]

\* a ranking call over a catalog of up to MaxCatalog programs
Init ==
    \E profile \in Profiles, catalog \in Catalogs, ms \in MinScores,
       mr \in MaxResultsValues, t \in Instants :
        Entry(profile, catalog, ms, mr, t)

Spec == Init /\ [][Next]_vars

\* score_one: a call over one program, drawn from every combination of fields,
\* or over the empty catalog
InitScore ==
    \E profile \in ScoreProfiles, t \in Instants :
        \/ \E pol \in ScorePolicies : Entry(profile, <<pol>>, 0, 1, t)
        \/ Entry(profile, <<>>, 0, 1, t)

SpecScore == InitScore /\ [][Next]_vars

\* the scenario program: sample_policies[0] described by its benefit text,
\* without the keys the scenario leaves out (application_url, requirements)
ScenarioProgram ==
    [BasePolicy EXCEPT !.benefit = b_upto_1200, !.budget_max = NoneInt,
                       !.application_url = EmptyText]

\* fixture programs: the scenario, sample_policies[0], and the fixture texts
\* of the Amount Extractor as benefit descriptions
FixturePolicies ==
    { ScenarioProgram, BasePolicy }
    \cup { [BasePolicy EXCEPT !.benefit = b, !.budget_max = NoneInt] :
               b \in {b_upto_3000, b_1eok, b_monthly} }

\* a call of user_profile_1 over one fixture program
InitFixture ==
    \E pol \in FixturePolicies, ms \in MinScores, mr \in MaxResultsValues, t \in Instants :
        Entry(BaseProfile, <<pol>>, ms, mr, t)

SpecFixture == InitFixture /\ [][Next]_vars

\* programs that differ from sample_policies[0] in the deadline text only
DeadlinePolicies ==
    { [BasePolicy EXCEPT !.deadline = d] :
        d \in { NoneText, EmptyText, d_ongoing, d_undecided, d_2026_06,
                <<44228, 49549>>,                                    \* "계속"
                <<50696, 49328, 32, 49548, 51652, 49884, 44620, 51648>>,
                                                                     \* "예산 소진시까지"
                d_2026_01_01 \o <<32>> \o kw_sangsi,                  \* "2026-01-01 상시"
                <<50, 48, 50, 53, 45380, 32, 49, 50, 50900>>,        \* "2025년 12월"
                <<50, 48, 50, 53, 45380>>,                           \* "2025년"
                <<50, 48, 50, 53, 32, 49345, 48152, 44592>>,         \* "2025 상반기"
                <<49, 52264, 32, 47784, 51665>> } }                  \* "1차 모집"

\* a call of user_profile_1 over one such program, entered at an instant
\* before, on or after the turn of the month, of the year and of June 2026
InitDeadline ==
    \E pol \in DeadlinePolicies, ms \in MinScores, mr \in MaxResultsValues,
       t \in Instants \cup { <<2026, 1, 2, 0>>, <<2026, 6, 30, 1>>, <<2026, 7, 1, 0>>,
                             <<2026, 7, 2, 0>> } :
        Entry(BaseProfile, <<pol>>, ms, mr, t)

SpecDeadline == InitDeadline /\ [][Next]_vars

\* <<profile, program>> pairs that vary one matcher's inputs around
\* user_profile_1 and sample_policies[0]: ages of a validated profile against
\* declared, half-declared and undeclared ranges
AgeCases ==
    { << [BaseProfile EXCEPT !.age = a],
         [BasePolicy EXCEPT !.target_age_min = r[1], !.target_age_max = r[2]] >> :
        a \in 15..39,
        r \in { <<15, 34>>, <<20, 30>>, <<25, 25>>, <<NoneInt, 39>>,
                <<NoneInt, NoneInt>>, <<0, 0>>, <<NoneInt, 0>> } }

\* regions against every list of one to four province, city and district names
RegionCases ==
    { << [BaseProfile EXCEPT !.region = u], [BasePolicy EXCEPT !.target_regions = l] >> :
        u \in { s_seoul,
                s_busan \o <<44305, 50669, 49884>>,     \* "부산광역시"
                <<45824, 44396>> },                      \* "대구"
        l \in SeqsUpTo({ s_seoul_full, s_busan, s_jeju,
                         <<50672, 51228, 44396>> },      \* "연제구"
                       4) \ { <<>> } }

\* incomes on both sides of the half, the nine tenths and the whole of a ceiling
IncomeCases ==
    { << [BaseProfile EXCEPT !.income = n], [BasePolicy EXCEPT !.target_income_max = c] >> :
        n \in {0, 1000, 1001, 1800, 1801, 2000, 2001, 7000},
        c \in {NoneInt, 0, 2000} }

\* budget figures on both sides of every tier, with and without an amount in
\* the benefit text
BenefitCases ==
    { << BaseProfile, [BasePolicy EXCEPT !.benefit = b, !.budget_max = n] >> :
        b \in {b_none, b_monthly, b_upto_3000},
        n \in {NoneInt, 0, 49, 50, 99, 100, 199, 200, 499, 500, 999, 1000, 1999, 2000,
               2999, 3000, 10000} }

\* a scoring call on one such pair
InitMatch ==
    \E c \in AgeCases \cup RegionCases \cup IncomeCases \cup BenefitCases, t \in Instants :
        Entry(c[1], <<c[2]>>, 0, 1, t)

SpecMatch == InitMatch /\ [][Next]_vars

\* ------------------------------------------------------------------------
\* Properties
\* ------------------------------------------------------------------------

\* calculate_score has returned for program i, and ret holds what it returned
Returned == pc = "collect"

\* the except branch of match_policies was taken
Raised == pc = "done" /\ i <= Len(policies)

HasRun(step) == \E k \in 1..Len(loc.evaluated) : loc.evaluated[k] = step

\* C1: whatever path the scoring pass takes (hard exclusion, soft misses,
\* fail-open defaults of the matchers, the aggregator's own except branch),
\* the total that score_one returns lies in [0, 100].
C1_ScoreInRange == Returned => (ret.score >= 0 /\ ret.score <= 1000)

\* the full 100 points are reached by a pass that ran every matcher
C1_Witness ==
    /\ Returned
    /\ ret.score = 1000
    /\ HasRun("ease")

\* C2: when the Deadline Analyzer answered "expired" for the program, score_one
\* returns exactly (0, ["deadline passed"]), whatever the other fields and the
\* profile are.
C2_ExpiredScoresZero ==
    (Returned /\ is_deadline_expired(policy.deadline, log[i].at))
        => ret = [score |-> 0, reasons |-> <<"deadline_passed">>]

\* age, region, income and employment all match the program
PerfectMatch(profile, pol) ==
    /\ profile.age # NoneInt
    /\ check_age_match(profile.age, pol.target_age_min, pol.target_age_max).eligible
    /\ ~check_age_match(profile.age, pol.target_age_min, pol.target_age_max).failed
    /\ pol.target_age_min # NoneInt
    /\ pol.target_regions = <<s_seoul_full>>
    /\ profile.region = s_seoul
    /\ pol.target_income_max = 6000
    /\ profile.income = 3000
    /\ pol.target_employment = <<s_job_seeker>>
    /\ profile.employment = s_job_seeker

\* an expired program that matches the profile on every condition
C2_Witness ==
    /\ Returned
    /\ is_deadline_expired(policy.deadline, log[i].at)
    /\ PerfectMatch(user_profile, policy)
    /\ ret.score = 0

\* C3: within one match_policies call, two programs that carry the same
\* deadline text are never classified differently by the Deadline Analyzer
\* (one expired and the other not, or two different urgency tiers), however
\* the clock advances while the call runs.
C3_SameDeadlineSameVerdict ==
    \A j, k \in 1..Len(policies) :
        (/\ policies[j].deadline = policies[k].deadline
         /\ log[j].expired \in {"yes", "no"}
         /\ log[k].expired \in {"yes", "no"})
            => /\ log[j].expired = log[k].expired
               /\ (log[j].tier # "unread" /\ log[k].tier # "unread")
                      => log[j].tier = log[k].tier

\* the program sets both age bounds and the applicant's age is outside them
AgeDeclared(pol) ==
    /\ pol.target_age_min # NoneInt /\ pol.target_age_min > 0
    /\ pol.target_age_max # NoneInt /\ pol.target_age_max > 0
AgeOutside(profile, pol) ==
    /\ profile.age # NoneInt
    /\ AgeDeclared(pol)
    /\ (profile.age < pol.target_age_min \/ profile.age > pol.target_age_max)

\* the deadline step let the pass go on to the age filter
DeadlinePassed ==
    /\ ~deadline_expired_raises(policy.deadline)
    /\ ~is_deadline_expired(policy.deadline, log[i].at)

RegionUnrestricted(list) ==
    \/ list = NoneList
    \/ list = <<>>
    \/ \E k \in 1..Len(list) : IsStr(list[k]) /\ Contains(nationwide, list[k])

ApplicantRegions == { s_seoul, s_busan, s_jeju, EmptyText, NoneText }

\* C5: for a program whose target_regions is empty or absent or has an entry
\* containing the nationwide sentinel, the Region Matcher answers eligible for
\* every applicant region, the empty one included, and score_one never
\* returns the "region condition not met" exclusion.
C5_UnrestrictedRegionNeverExcludes ==
    \A k \in 1..Len(policies) :
        RegionUnrestricted(policies[k].target_regions)
            => /\ \A r \in ApplicantRegions :
                      check_region_match(r, policies[k].target_regions).eligible
               /\ (Returned /\ i = k) => ret.reasons # <<"region_mismatch">>

\* an applicant with an empty region passed the region filter of a program
\* whose second entry contains the sentinel
C5_Witness ==
    /\ Returned
    /\ policy.target_regions = <<s_busan, nationwide \o s_seoul>>
    /\ user_profile.region = EmptyText
    /\ HasRun("region")
    /\ Len(ret.reasons) >= 2
    /\ ret.reasons[2] = "region_fit"

\* C6: a program that passed the deadline, age and region filters never ends
\* below the age and region sub-scores it accumulated, whatever the income
\* and employment matchers answer.
C6_SoftMissKeepsAgeAndRegion ==
    (/\ Returned
     /\ HasRun("income")
     /\ \/ ~check_income_match(user_profile.income, policy.target_income_max).eligible
        \/ ~check_employment_match(user_profile.employment, policy.target_employment).eligible)
        => ret.score * loc.age.den >= loc.age.num + loc.region * loc.age.den

HardReasons == { <<"deadline_passed">>, <<"age_mismatch">>, <<"region_mismatch">> }

AgeEligible == check_age_match(user_profile.age, policy.target_age_min,
                               policy.target_age_max).eligible
RegionEligible == check_region_match(user_profile.region, policy.target_regions).eligible

\* C7: the pass stops at the first failing hard filter in the order deadline,
\* age, region: the single reason is that filter's, the matchers after it are
\* not evaluated, and they contribute neither a score nor a reason.
C7_FirstFailingFilterEndsPass ==
    Returned =>
        /\ is_deadline_expired(policy.deadline, log[i].at)
              => /\ ret.reasons = <<"deadline_passed">>
                 /\ loc.evaluated = <<"deadline">>
        /\ (DeadlinePassed /\ ~AgeEligible)
              => /\ ret.reasons = <<"age_mismatch">>
                 /\ loc.evaluated = <<"deadline", "age">>
        /\ (DeadlinePassed /\ AgeEligible /\ ~RegionEligible)
              => /\ ret.reasons = <<"region_mismatch">>
                 /\ loc.evaluated = <<"deadline", "age", "region">>
        /\ ret.reasons \in HardReasons
              => /\ ret.score = 0
                 /\ ~HasRun("income") /\ ~HasRun("employment")
                 /\ ~HasRun("benefit") /\ ~HasRun("ease")
                 /\ loc.income = 0 /\ loc.employment = 0
                 /\ loc.benefit = 0 /\ loc.ease = 0

\* all three hard filters fail for the pair, and the deadline's reason is
\* the one returned
C7_Witness ==
    /\ Returned
    /\ is_deadline_expired(policy.deadline, log[i].at)
    /\ ~AgeEligible
    /\ ~RegionEligible
    /\ ret.reasons = <<"deadline_passed">>

\* match_policies has returned
Done == pc = "done"

\* C8: the returned list is in descending order of score, and entries of
\* equal score that carry a deadline string are in ascending lexical order
\* of that string.
C8_SortedByScoreThenDeadline ==
    Done =>
        \A j, k \in 1..Len(result) :
            j < k =>
                /\ result[j].score >= result[k].score
                /\ (/\ result[j].score = result[k].score
                    /\ IsStr(result[j].deadline)
                    /\ IsStr(result[k].deadline))
                       => StrLeq(result[j].deadline, result[k].deadline)

\* two programs of equal score come back in the order of their deadline
\* strings, which is the reverse of their catalog order
C8_Witness ==
    /\ Done
    /\ Len(policies) = 2
    /\ Len(result) = 2
    /\ result[1].score = result[2].score
    /\ result[1].deadline = policies[2].deadline
    /\ result[2].deadline = policies[1].deadline
    /\ IsStr(result[1].deadline)
    /\ IsStr(result[2].deadline)
    /\ StrLess(result[1].deadline, result[2].deadline)

\* C9: among returned entries of equal score, no entry without a deadline
\* (None or the empty string) comes before an entry that has one.
C9_NoDeadlineSortsLast ==
    Done =>
        \A j, k \in 1..Len(result) :
            (/\ j < k
             /\ result[j].score > 0
             /\ result[j].score = result[k].score
             /\ ~Truthy(result[j].deadline))
                => ~Truthy(result[k].deadline)

\* C10: match_policies returns at most max_results entries (none when
\* max_results is below 1), and they are the first entries of the sorted
\* list of qualifying programs.
C10_AtMostMaxResults ==
    Done =>
        /\ Len(result) <= Max2(max_results, 0)
        /\ result = SubSeq(matching_results, 1, Len(result))

\* the loop of match_policies has just finished with program i - 1, whose
\* calculate_score result is still in ret
JustCollected == pc \in {"deadline", "sort"} /\ i > 1

\* C11: every entry of the list being built and of the returned list has
\* score >= min_score, and a program whose score is at least min_score, the
\* score equal to min_score included, is appended to the list: the threshold
\* drops only scores strictly below min_score.
C11_ThresholdKeepsAtOrAbove ==
    /\ \A k \in 1..Len(matching_results) : matching_results[k].score >= min_score
    /\ \A k \in 1..Len(result) : result[k].score >= min_score
    /\ (JustCollected /\ ret.score >= min_score)
          => /\ matching_results # <<>>
             /\ matching_results[Len(matching_results)] =
                    MatchingResult(policies[i - 1], ret.score, ret.reasons)
    /\ (Done /\ ~Raised /\ max_results >= Len(matching_results))
          => result = matching_results

\* a program scoring exactly a positive min_score has been kept
C11_Witness ==
    /\ JustCollected
    /\ min_score > 0
    /\ ret.score = min_score
    /\ matching_results # <<>>
    /\ matching_results[Len(matching_results)].score = min_score
    /\ matching_results[Len(matching_results)].policy_id = policies[i - 1].policy_id

\* the control points inside match_policies and calculate_score
ControlPoints == { "deadline", "age", "region", "income", "employment", "benefit",
                   "ease", "collect", "sort", "done" }

\* C12: no exception leaves calculate_score or match_policies. Control stays
\* inside the two functions until match_policies returns, a pass of
\* calculate_score always ends with a
\* (score, reasons) pair, a failure inside match_policies ends with the empty
\* list, and the empty catalog gives the empty list.
C12_NoExceptionEscapes ==
    /\ pc \in ControlPoints
    /\ Returned => (ret # NoRet /\ ret.score \in 0..1000)
    /\ (Returned /\ log[i].expired = "raised") => ret = ErrorRet
    /\ Raised => result = <<>>
    /\ (Done /\ policies = <<>>) => result = <<>>

\* a record with a non-string deadline went through both except branches:
\* calculate_score returned the error pair and match_policies the empty list
C12_Witness ==
    /\ Done
    /\ Raised
    /\ policy.deadline = NonStrText
    /\ ret = ErrorRet
    /\ result = <<>>

\* a record with a field of the wrong type: a deadline that is not a string,
\* a target_employment that is null or a number, or a null entry in
\* target_regions
MalformedRecord(pol) ==
    \/ pol.deadline = NonStrText
    \/ pol.target_employment = NoneList
    \/ pol.target_employment = NonListValue
    \/ /\ pol.target_regions # NoneList
       /\ \E k \in 1..Len(pol.target_regions) : ~IsStr(pol.target_regions[k])

\* C13: a record with a malformed field that no hard filter excluded gets a
\* lenient score above 0 from calculate_score, whatever failure the field
\* raised while it was scored.
C13_MalformedFieldScoresAboveZero ==
    (/\ Returned
     /\ user_profile # MalformedProfile
     /\ MalformedRecord(policy)
     /\ ret.reasons \notin HardReasons)
        => ret.score > 0

\* inputs on which a matcher raises inside its try block
AgeFault(profile, pol) ==
    /\ profile.age = NoneInt
    /\ \/ pol.target_age_min # NoneInt /\ pol.target_age_min > 0
       \/ pol.target_age_max # NoneInt /\ pol.target_age_max > 0
RegionFault(profile, pol) ==
    LET list == pol.target_regions
        bad == IF list = NoneList THEN {} ELSE {k \in 1..Len(list) : ~IsStr(list[k])}
        nat == IF list = NoneList THEN {}
               ELSE {k \in 1..Len(list) : IsStr(list[k]) /\ Contains(nationwide, list[k])}
    IN  /\ list # NoneList
        /\ list # <<>>
        /\ \/ bad # {} /\ (nat = {} \/ MinOf(bad) < MinOf(nat))
           \/ bad = {} /\ nat = {} /\ profile.region = NonStrText
IncomeFault(profile, pol) ==
    /\ profile.income = NoneInt
    /\ pol.target_income_max # NoneInt
    /\ pol.target_income_max # 0
EmploymentFault(profile, pol) == pol.target_employment = NonListValue

\* what a matcher answers when it fails open: eligible, 5 of its 10 points
FailsOpen(m) == m.eligible /\ m.num = 50 /\ m.den = 1

\* C14: each of the four condition matchers, on an input that makes it fail
\* internally, answers eligible with exactly half of its 10-point budget, and
\* calculate_score accumulates that half.
C14_MatchersFailOpen ==
    \A k \in 1..Len(policies) :
        LET pol == policies[k]
            ran(step) == Returned /\ i = k /\ HasRun(step)
        IN  /\ AgeFault(user_profile, pol)
                  => /\ FailsOpen(check_age_match(user_profile.age, pol.target_age_min,
                                                  pol.target_age_max))
                     /\ ran("age") => FailsOpen(loc.age)
            /\ RegionFault(user_profile, pol)
                  => /\ FailsOpen(check_region_match(user_profile.region, pol.target_regions))
                     /\ ran("region") => loc.region = 50
            /\ IncomeFault(user_profile, pol)
                  => /\ FailsOpen(check_income_match(user_profile.income,
                                                     pol.target_income_max))
                     /\ ran("income") => (loc.income = 50 /\ loc.income_match)
            /\ EmploymentFault(user_profile, pol)
                  => /\ FailsOpen(check_employment_match(user_profile.employment,
                                                         pol.target_employment))
                     /\ ran("employment") => (loc.employment = 50 /\ loc.employment_match)

\* a pass in which the age, region, income and employment matchers all failed
\* and each contributed 5 points
C14_Witness ==
    /\ Returned
    /\ AgeFault(user_profile, policy)
    /\ RegionFault(user_profile, policy)
    /\ IncomeFault(user_profile, policy)
    /\ EmploymentFault(user_profile, policy)
    /\ HasRun("employment")
    /\ FailsOpen(loc.age)
    /\ loc.region = 50
    /\ loc.income = 50
    /\ loc.employment = 50

\* C15: calculate_score returns 0 only with one of the three hard-exclusion
\* reasons, a score of 0 always comes with exactly one reason, and a program
\* that passed the deadline, age and region filters scores above 0.
C15_ZeroOnlyWhenHardExcluded ==
    (Returned /\ user_profile # MalformedProfile) =>
        /\ ret.score = 0 => (ret.reasons \in HardReasons /\ Len(ret.reasons) = 1)
        /\ HasRun("income") => ret.score > 0

\* C16: in every scoring pass each of the four condition sub-scores is
\* between 0 and 10, so their sum is at most 40, and the benefit score and the
\* ease score are each between 0 and 30.
C16_SubScoresWithinBudgets ==
    /\ loc.age.num >= 0 /\ loc.age.num <= 100 * loc.age.den
    /\ loc.region \in 0..100
    /\ loc.income \in 0..100
    /\ loc.employment \in 0..100
    /\ (loc.age.num + (loc.region + loc.income + loc.employment) * loc.age.den)
           <= score_weights.condition_match * loc.age.den
    /\ loc.benefit \in 0..300
    /\ loc.ease \in 0..300
    /\ Returned =>
           /\ calculate_benefit_score(policy.benefit, policy.budget_max) \in 0..300
           /\ calculate_ease_score(policy, now) \in 0..300

\* a pass in which every part reached the top of its budget
C16_Witness ==
    /\ Returned
    /\ HasRun("ease")
    /\ loc.age.num = 100 * loc.age.den
    /\ loc.region = 100 /\ loc.income = 100 /\ loc.employment = 100
    /\ loc.benefit = 300
    /\ loc.ease = 300

\* two successive programs with identical records that got the same answers
\* from the Deadline Analyzer, the second one just scored and kept
TwinCalls ==
    /\ JustCollected
    /\ i > 2
    /\ policies[i - 1] = policies[i - 2]
    /\ log[i - 1].expired = log[i - 2].expired
    /\ log[i - 1].tier = log[i - 2].tier
    /\ ret.score >= min_score

\* C17: no step of match_policies or calculate_score changes the profile, a
\* program record, the catalog or the other arguments, and a call of
\* calculate_score reads nothing an earlier call wrote: two successive calls
\* on identical records with the same deadline verdicts give identical
\* result entries.
C17_NoSideEffects ==
    /\ [](TwinCalls =>
            /\ Len(matching_results) >= 2
            /\ matching_results[Len(matching_results)] =
                   matching_results[Len(matching_results) - 1])
    /\ [][/\ user_profile' = user_profile
          /\ policies' = policies
          /\ min_score' = min_score
          /\ max_results' = max_results]_vars

\* the same record was scored twice in one call, with a positive score and
\* several reasons, and both entries are equal
C17_Witness ==
    /\ TwinCalls
    /\ ret.score > 0
    /\ Len(ret.reasons) > 1
    /\ Len(matching_results) >= 2
    /\ matching_results[Len(matching_results)] = matching_results[Len(matching_results) - 1]

\* the program of the scenario: the six listed fields, a benefit amount of
\* 1200 given as budget_max or in the benefit text, and no requirements
IsScenarioProgram(pol) ==
    /\ pol.target_age_min = 15 /\ pol.target_age_max = 34
    /\ pol.target_regions = <<nationwide>>
    /\ pol.target_employment = <<s_job_seeker>>
    /\ pol.target_income_max = 6000
    /\ \/ pol.budget_max = 1200
       \/ pol.budget_max = NoneInt /\ extract_amount_from_text(pol.benefit) = 1200
    /\ pol.deadline = d_ongoing
    /\ pol.requirements = <<>>

\* C18: user_profile_1 against the scenario program scores above 80, and the
\* reasons contain the age-fit line and the region-fit line.
C18_ScenarioScoresAbove80 ==
    (Returned /\ user_profile = BaseProfile /\ IsScenarioProgram(policy))
        => /\ ret.score > 800
           /\ \E k \in 1..Len(ret.reasons) : ret.reasons[k] = "age_fit"
           /\ \E k \in 1..Len(ret.reasons) : ret.reasons[k] = "region_fit"

\* the scenario program without an application URL was scored 83.5
C18_Witness ==
    /\ Returned
    /\ user_profile = BaseProfile
    /\ policy = ScenarioProgram
    /\ ret.score = 835
    /\ ret.reasons[1] = "age_fit"
    /\ ret.reasons[2] = "region_fit"

\* C19: the Amount Extractor returns 3000 for "최대 3000만원 지급", 10000 for
\* "1억 지원" and 600 for "월 50만원", and the benefit score of a program
\* described by one of these texts is the tier of that amount.
C19_AmountFixtures ==
    \A k \in 1..Len(policies) :
        LET text == policies[k].benefit
            amount == extract_amount_from_text(text)
        IN  /\ text = b_upto_3000 => amount = 3000
            /\ text = b_1eok => amount = 10000
            /\ text = b_monthly => amount = 600
            /\ (/\ Returned /\ i = k /\ HasRun("benefit")
                /\ text \in {b_upto_3000, b_1eok, b_monthly}
                /\ policies[k].budget_max = NoneInt)
                   => loc.benefit = benefit_tier(amount, score_weights.benefit_size)

\* the three fixture texts are the benefit texts of scored programs: here
\* the one in the larger unit, scored with the top tier
C19_Witness ==
    /\ Returned
    /\ HasRun("benefit")
    /\ policy.benefit = b_1eok
    /\ policy.budget_max = NoneInt
    /\ extract_amount_from_text(policy.benefit) = 10000
    /\ loc.benefit = 300

\* the calendar day d = <<y, m, d>> is strictly earlier than the day of the
\* instant at
DayBefore(d, at) ==
    \/ d[1] < at[1]
    \/ d[1] = at[1] /\ d[2] < at[2]
    \/ d[1] = at[1] /\ d[2] = at[2] /\ d[3] < at[3]

\* C20: a program whose deadline text is the full date 2026-01-01 is reported
\* expired exactly when that day is strictly earlier than the current date;
\* on 2026-01-01 itself it is not expired at any time of the day.
C20_ExpiredIffDateBeforeToday ==
    \A k \in 1..Len(policies) :
        (policies[k].deadline = d_2026_01_01 /\ log[k].expired \in {"yes", "no"})
            => (log[k].expired = "yes" <=> DayBefore(<<2026, 1, 1>>, log[k].at))

\* C21: a deadline text in which the Deadline Analyzer finds an ongoing
\* keyword is never reported expired, whatever date it also contains, and
\* gets the open-ended tier: the full 10 points of the deadline sub-score.
C21_OngoingGetsFullTier ==
    LET deadline == policy.deadline
        ongoing == /\ Truthy(deadline)
                   /\ \E k \in 1..Len(ongoing_keywords) :
                          Contains(ongoing_keywords[k], Strip(Lower(deadline)))
    IN  (Returned /\ HasRun("ease") /\ ongoing)
            => /\ log[i].expired = "no"
               /\ deadline_score(deadline, log[i].ease_at)
                      = score_weights.ease_of_application \div 3

\* C22: a deadline in which the Deadline Analyzer finds neither an ongoing
\* keyword nor a date pattern (an empty or absent deadline included) is not
\* expired and gets the unknown/normal tier: 6 points of the deadline sub-score.
C22_UnparsableGetsNormalTier ==
    LET deadline == policy.deadline
        keyword == /\ Truthy(deadline)
                   /\ \E k \in 1..Len(ongoing_keywords) :
                          Contains(ongoing_keywords[k], Strip(Lower(deadline)))
        dated == /\ Truthy(deadline)
                 /\ \/ SearchYmdSep(deadline) # NoMatch
                    \/ SearchYmdKor(deadline) # NoMatch
                    \/ SearchYm(deadline) # NoMatch
                    \/ SearchY(deadline) # NoMatch
    IN  (Returned /\ HasRun("ease") /\ deadline # NonStrText /\ ~keyword /\ ~dated)
            => /\ log[i].expired = "no"
               /\ deadline_score(deadline, log[i].ease_at)
                      = ((score_weights.ease_of_application \div 3) * 6) \div 10

\* C23: a deadline text that gives a year Y and a month M only is not expired
\* when read on any date up to the last day of that month and is expired
\* when read on any date after the first day of the following month (after
\* 1 January of Y+1 for December); a text that gives a year Y only is not
\* expired on any date up to the end of Y and is expired on any date after
\* 1 January of Y+1.
C23_MonthAndYearDeadlines ==
    \A k \in 1..Len(policies) :
        LET deadline == policies[k].deadline
            at == log[k].at
            plain == /\ Truthy(deadline) /\ deadline # NonStrText
                     /\ \A w \in 1..Len(ongoing_keywords) :
                            ~Contains(ongoing_keywords[w], Strip(Lower(deadline)))
                     /\ SearchYmdSep(deadline) = NoMatch
                     /\ SearchYmdKor(deadline) = NoMatch
            ym == SearchYm(deadline)
            yy == SearchY(deadline)
            following == IF ym[2] = 12 THEN <<ym[1] + 1, 1>> ELSE <<ym[1], ym[2] + 1>>
        IN  (log[k].expired \in {"yes", "no"} /\ plain)
              => /\ (ym # NoMatch /\ ym[2] \in 1..12)
                      => /\ (at[1] < ym[1] \/ (at[1] = ym[1] /\ at[2] <= ym[2]))
                              => log[k].expired = "no"
                         /\ DateLess(<<following[1], following[2], 1, 1>>,
                                     <<at[1], at[2], at[3], 1>>)
                              => log[k].expired = "yes"
                 /\ (ym = NoMatch /\ yy # NoMatch)
                      => /\ at[1] <= yy[1] => log[k].expired = "no"
                         /\ DateLess(<<yy[1] + 1, 1, 1, 1>>, <<at[1], at[2], at[3], 1>>)
                              => log[k].expired = "yes"

\* "2025년 12월" read on 2 January 2026 and found expired
C23_Witness ==
    /\ Len(policies) = 1
    /\ SearchYm(policies[1].deadline) = <<2025, 12>>
    /\ SearchYmdKor(policies[1].deadline) = NoMatch
    /\ log[1].at = <<2026, 1, 2, 0>>
    /\ log[1].expired = "yes"

\* C24: for an age inside the program's range the Age Matcher answers
\* eligible with a score between 5 and 10 points: 10 at the midpoint of the
\* range and for a range of one age, exactly 5 at either edge of a wider
\* range, and never more than the score of an age that is nearer to the
\* midpoint. With both bounds unset (absent or 0) the score is 10.
C24_AgeScoreShape ==
    (i <= Len(policies) /\ HasRun("age") /\ ~HasRun("region")
       /\ user_profile.age # NoneInt)
    => LET age == user_profile.age
           min_set == policy.target_age_min # NoneInt /\ policy.target_age_min > 0
           max_set == policy.target_age_max # NoneInt /\ policy.target_age_max > 0
           lo == IF min_set THEN policy.target_age_min ELSE 0
           hi == IF max_set THEN policy.target_age_max ELSE 100
           full == condition_weights.age
           got == loc.age
           other(a) == check_age_match(a, policy.target_age_min, policy.target_age_max)
       IN  /\ (~min_set /\ ~max_set)
                => pc = "region" /\ got.eligible /\ got.num = full * got.den
           /\ ((min_set \/ max_set) /\ lo <= age /\ age <= hi)
                => /\ pc = "region" /\ got.eligible
                   /\ 2 * got.num >= full * got.den /\ got.num <= full * got.den
                   /\ (2 * age = lo + hi \/ lo = hi) => got.num = full * got.den
                   /\ (lo < hi /\ age \in {lo, hi}) => 2 * got.num = full * got.den
                   /\ \A a \in lo..hi :
                          Abs(2 * a - (lo + hi)) >= Abs(2 * age - (lo + hi))
                              => other(a).num * got.den <= got.num * other(a).den

\* an age at the upper edge of a range of several ages scored exactly 5 points
C24_Witness ==
    /\ pc = "region" /\ i = 1
    /\ policy.target_age_min = 15 /\ policy.target_age_max = 34
    /\ user_profile.age = 34
    /\ loc.age.eligible /\ 2 * loc.age.num = condition_weights.age * loc.age.den

\* C25: against a non-empty list of target regions none of which is
\* nationwide, an applicant whose normalized region equals the normalized value
\* of some entry is eligible with 10 points for a list of one entry, 9 for two
\* or three and 8 for more, whichever entry matches and in whatever order the
\* entries stand; an applicant whose region matches no entry is not eligible
\* and scores 0.
C25_RegionScoreByListLength ==
    (i <= Len(policies) /\ HasRun("region") /\ ~HasRun("income"))
    => LET region == user_profile.region
           list == policy.target_regions
           n == Len(list)
           full == condition_weights.region
           explicit == /\ list # NoneList /\ list # NonListValue /\ list # <<>>
                       /\ \A k \in 1..n : IsStr(list[k]) /\ ~Contains(nationwide, list[k])
                       /\ IsStr(region) /\ Truthy(region)
           matched == \E k \in 1..n : normalize(region) = normalize(list[k])
           orders == {q \in [1..n -> 1..n] : \A x, y \in 1..n : q[x] = q[y] => x = y}
       IN  explicit
           => /\ matched
                  => /\ pc = "income"
                     /\ loc.region = IF n = 1 THEN full
                                      ELSE IF n <= 3 THEN (full * 9) \div 10
                                      ELSE (full * 8) \div 10
                     /\ \A q \in orders :
                            check_region_match(region, [k \in 1..n |-> list[q[k]]])
                                = Match(TRUE, loc.region, 1, FALSE)
              /\ ~matched
                  => /\ pc = "collect"
                     /\ ret = [score |-> 0, reasons |-> <<"region_mismatch">>]
                     /\ check_region_match(region, list) = Match(FALSE, 0, 1, FALSE)

\* the last of four entries, a district of the applicant's city, matched a
\* differently written region for 8 points
C25_Witness ==
    /\ pc = "income" /\ i = 1
    /\ Len(policy.target_regions) = 4
    /\ \A k \in 1..3 : normalize(policy.target_regions[k]) # normalize(user_profile.region)
    /\ normalize(policy.target_regions[4]) = normalize(user_profile.region)
    /\ policy.target_regions[4] # user_profile.region
    /\ loc.region = (condition_weights.region * 8) \div 10

\* C26: with an income ceiling c > 0, an applicant income n <= c is eligible
\* with 10 points when 2n <= c, 9 points when 2n > c and 10n <= 9c, and 8
\* points otherwise; an income above c is not eligible and scores 0; with the
\* ceiling absent or 0 every income is eligible with 10 points.
C26_IncomeTiers ==
    (i <= Len(policies) /\ HasRun("income") /\ ~HasRun("employment")
       /\ user_profile.income # NoneInt)
    => LET n == user_profile.income
           c == policy.target_income_max
           full == condition_weights.income
       IN  IF c # NoneInt /\ c > 0
           THEN IF n <= c
                THEN /\ loc.income_match
                     /\ loc.income = IF 2 * n <= c THEN full
                                      ELSE IF 10 * n <= 9 * c THEN (full * 9) \div 10
                                      ELSE (full * 8) \div 10
                ELSE /\ ~loc.income_match /\ loc.income = 0
                     /\ check_income_match(n, c) = Match(FALSE, 0, 1, FALSE)
           ELSE (c = NoneInt \/ c = 0) => (loc.income_match /\ loc.income = full)

\* an income of exactly nine tenths of the ceiling scored 9 points
C26_Witness ==
    /\ pc = "employment" /\ i = 1
    /\ policy.target_income_max = 2000 /\ user_profile.income = 1800
    /\ loc.income_match /\ loc.income = (condition_weights.income * 9) \div 10

\* C27: the benefit score is the tier of the program's budget_max whenever
\* that figure is present and positive, whatever the benefit text says, and
\* otherwise the tier of the amount extracted from the benefit text; the tiers
\* are 30 points from 3000, 27 from 2000, 24 from 1000, 21 from 500, 18 from
\* 200, 15 from 100, 12 from 50 and 9 below that or when no amount is found, so
\* the score never falls when the amount grows and is never below 9.
C27_BenefitTiers ==
    (i <= Len(policies) /\ HasRun("benefit") /\ ~HasRun("ease"))
    => LET n == policy.budget_max
           authoritative == n # NoneInt /\ n > 0
           amount == IF authoritative THEN n ELSE extract_amount_from_text(policy.benefit)
           tier(x) == IF x >= 3000 THEN 300 ELSE IF x >= 2000 THEN 270
                      ELSE IF x >= 1000 THEN 240 ELSE IF x >= 500 THEN 210
                      ELSE IF x >= 200 THEN 180 ELSE IF x >= 100 THEN 150
                      ELSE IF x >= 50 THEN 120 ELSE 90
       IN  /\ loc.benefit = tier(amount)
           /\ loc.benefit >= 90
           /\ authoritative
                => \A c \in BenefitCases :
                      /\ calculate_benefit_score(c[2].benefit, n) = loc.benefit
                      /\ (c[2].budget_max # NoneInt /\ c[2].budget_max >= n)
                            => calculate_benefit_score(policy.benefit, c[2].budget_max)
                                  >= loc.benefit

\* a budget figure of 2999 scored 27 points although the benefit text names 3000
C27_Witness ==
    /\ pc = "ease" /\ i = 1
    /\ policy.budget_max = 2999
    /\ extract_amount_from_text(policy.benefit) = 3000
    /\ loc.benefit = 270

\* C28: the reasons of every result that is not a hard exclusion begin with
\* the age-fit line and the region-fit line; next comes an income reason if
\* and only if the Income Matcher answered eligible, then an employment
\* reason if and only if the Employment Matcher answered eligible; a soft
\* miss leaves no reason, and only benefit and ease remarks follow. Stated
\* for a validated profile and a pass in which all four matchers answered.
C28_ReasonsFollowMatchers ==
    (Returned /\ ret.reasons \notin HardReasons
       /\ user_profile # MalformedProfile /\ HasRun("employment"))
    => LET income_reason ==
               IF policy.target_income_max # NoneInt /\ policy.target_income_max # 0
               THEN "income_fit" ELSE "income_unlimited"
           conditions ==
               <<"age_fit", "region_fit">>
               \o (IF loc.income_match THEN <<income_reason>> ELSE <<>>)
               \o (IF loc.employment_match THEN <<"employment_fit">> ELSE <<>>)
       IN  /\ Len(ret.reasons) >= Len(conditions)
           /\ SubSeq(ret.reasons, 1, Len(conditions)) = conditions
           /\ \A k \in (Len(conditions) + 1)..Len(ret.reasons) :
                  ret.reasons[k] \in {"benefit_high", "benefit_moderate",
                                      "ease_simple", "ease_normal"}

\* C29: every program is ranked independently of the other records of the
\* catalog: a program that reached the threshold and whose result entry was
\* built is in the list that rank returns whenever nothing is truncated,
\* whatever other records the catalog holds. Stated for the programs that
\* scored above 0.
C29_RankedIndependently ==
    (Done /\ max_results >= Len(policies))
        => \A k \in 1..Len(matching_results) :
              matching_results[k].score > 0
                  => \E j \in 1..Len(result) : result[j] = matching_results[k]

\* C30: only the threshold keeps hard-excluded programs out of the ranking:
\* with min_score > 0 no hard-excluded program is in the output, and with
\* min_score <= 0 every hard-excluded program is in the output unless
\* truncation removes it. Stated for the hard-excluded programs whose own
\* result entry can be built.
C30_ThresholdAloneDropsExcluded ==
    Done
    => LET excluded(k) ==
               /\ MatchingResultValid(policies[k], 0)
               /\ \/ log[k].expired = "yes"
                  \/ log[k].expired = "no" /\ AgeOutside(user_profile, policies[k])
           listed(k) ==
               \E j \in 1..Len(result) :
                   /\ result[j].policy_id = policies[k].policy_id
                   /\ result[j].score = 0
                   /\ result[j].match_reasons \in HardReasons
       IN  /\ min_score > 0
                => \A j \in 1..Len(result) :
                      result[j].score > 0 /\ result[j].match_reasons \notin HardReasons
           /\ (min_score <= 0 /\ max_results >= Len(policies))
                => \A k \in 1..Len(policies) : excluded(k) => listed(k)

====
